---- MODULE Spec2Model ----
(***************************************************************************)
(* GenAI Table Processing: the placeholder engine (utils/prompt_helper.py),*)
(* the model client adapter (services/processing.py) and the step pipeline *)
(* (app.py, process_dataframe).                                            *)
(*                                                                         *)
(* Text is a sequence of text units.  A unit is a non-empty piece of text; *)
(* the units used are single characters, except for a few fixed words      *)
(* ("AI_", "nan", "raw_response") that only ever occur whole, so equality  *)
(* of unit sequences is equality of the strings they spell.                *)
(*                                                                         *)
(* A cell or JSON value is a record [t, s, n]: a string (t = "str", text   *)
(* s), an integer (t = "int", value n) or pandas' missing value NaN        *)
(* (t = "nan").                                                            *)
(***************************************************************************)
EXTENDS Integers, Sequences, FiniteSets, TLC

VARIABLES
    \* ---- process_dataframe (app.py) ----
    df,                       \* the uploaded table: a sequence of rows (column -> value)
    steps,                    \* the configured steps: [prompt, output_fields, model]
    preview_only,             \* the run's mode
    api_key,                  \* whether OPENAI_API_KEY is available
    pc,                       \* position in process_dataframe
    result_df,                \* the working copy of the table
    row_idx, step_idx,        \* the two loop counters
    row_data,                 \* the dict of the row being processed
    total_prompt_tokens, total_completion_tokens,
    session,                  \* st.session_state: total_tokens, estimated_cost, processed_df
    exc,                      \* the exception that ended the run, "none" while there is none
    calls,                    \* the process_item invocations of the run, in order
    \* ---- replace_placeholders applied on its own ----
    sub_pc, sub_prompt, sub_row, sub_out, sub_names

pipe_vars == <<df, steps, preview_only, api_key, pc, result_df, row_idx, step_idx,
               row_data, total_prompt_tokens, total_completion_tokens, session, exc,
               calls>>
sub_vars == <<sub_pc, sub_prompt, sub_row, sub_out, sub_names>>
vars == <<pipe_vars, sub_vars>>

----------------------------------------------------------------------------
(* Bounds *)
MaxRows == 2          \* rows of the uploaded table
MaxSteps == 2         \* configured processing steps
MaxPieces == 3        \* pieces a template of the placeholder check is built from

----------------------------------------------------------------------------
(* Values *)
Str_(s) == [t |-> "str", s |-> s, n |-> 0]
Int_(n) == [t |-> "int", s |-> <<>>, n |-> n]
NaN == [t |-> "nan", s |-> <<>>, n |-> 0]

Digits == <<"0", "1", "2", "3", "4", "5", "6", "7", "8", "9">>

\* Python's str(value) for the values above (integers here are 0..9).
PyStr(v) ==
    CASE v.t = "str" -> v.s
      [] v.t = "int" -> <<Digits[v.n + 1]>>
      [] v.t = "nan" -> <<"nan">>

\* The units matched by the regex class \w.
WordChars == {"A", "B", "Z", "s", "u", "t", "x", "y", "o", "AI_", "nan", "raw_response"}
                \cup {Digits[i] : i \in 1..10}

----------------------------------------------------------------------------
(* utils/prompt_helper.py *)

RECURSIVE WordRun(_, _)
\* The length of the longest run of \w units of s starting at position j.
WordRun(s, j) ==
    IF j <= Len(s) /\ s[j] \in WordChars THEN 1 + WordRun(s, j + 1) ELSE 0

\* The length of the match of \{@(\w+)\} at position i of s, 0 when there is none.
\* \w+ is greedy and the unit after the run is no \w, so backtracking finds nothing.
MatchLen(s, i) ==
    IF i + 1 <= Len(s) /\ s[i] = "{" /\ s[i + 1] = "@"
    THEN LET k == WordRun(s, i + 2)
         IN  IF k >= 1 /\ i + 2 + k <= Len(s) /\ s[i + 2 + k] = "}" THEN k + 3 ELSE 0
    ELSE 0

RECURSIVE FindAllFrom(_, _)
\* The groups of the matches of the pattern in s from position i on, leftmost first,
\* not overlapping.
FindAllFrom(s, i) ==
    IF i > Len(s) THEN <<>>
    ELSE LET m == MatchLen(s, i)
         IN  IF m > 0
             THEN <<SubSeq(s, i + 2, i + m - 2)>> \o FindAllFrom(s, i + m)
             ELSE FindAllFrom(s, i + 1)

\* re.findall(pattern, s)
FindAll(s) == FindAllFrom(s, 1)

extract_placeholders(prompt) == FindAll(prompt)

RECURSIVE StrReplaceFrom(_, _, _, _)
\* str.replace(old, new) on s from position i: every occurrence, left to right,
\* not overlapping (old is never empty here).
StrReplaceFrom(s, old, new, i) ==
    IF i > Len(s) THEN <<>>
    ELSE IF i + Len(old) - 1 <= Len(s) /\ SubSeq(s, i, i + Len(old) - 1) = old
         THEN new \o StrReplaceFrom(s, old, new, i + Len(old))
         ELSE <<s[i]>> \o StrReplaceFrom(s, old, new, i + 1)

StrReplace(s, old, new) == StrReplaceFrom(s, old, new, 1)

\* f'{{@{column_name}}}'
Placeholder(column_name) == <<"{", "@">> \o column_name \o <<"}">>

\* row_data.get(column_name, '')
DictGet(row, column_name) ==
    IF column_name \in DOMAIN row THEN row[column_name] ELSE Str_(<<>>)

\* Faulty variant of the loop: it returns after the first match (a return inside the for).
ReplaceLoopFirstOnly(result, matches, row) ==
    IF matches = <<>> THEN result
    ELSE StrReplace(result, Placeholder(Head(matches)),
                    PyStr(DictGet(row, Head(matches))))

RECURSIVE ReplaceLoop(_, _, _)
\* The for loop of replace_placeholders over the matches of the ORIGINAL prompt,
\* each iteration replacing in the result so far.
ReplaceLoop(result, matches, row) ==
    IF matches = <<>> THEN result
    ELSE ReplaceLoop(StrReplace(result, Placeholder(Head(matches)),
                                PyStr(DictGet(row, Head(matches)))),
                     Tail(matches), row)

replace_placeholders(prompt, row) ==
    ReplaceLoop(prompt, FindAll(prompt), row)

----------------------------------------------------------------------------
(* services/processing.py *)

\* An estimate is a whole number of 1e-8 dollars; a rate is in 1e-5 dollars per
\* 1000 tokens, so (tokens / 1000) * rate is tokens * rate in 1e-8 dollars.
pricing ==
    [m \in {"gpt-4o-mini", "gpt-4o", "gpt-4-turbo"} |->
        CASE m = "gpt-4o-mini" -> [input |-> 15, output |-> 60]
          [] m = "gpt-4o" -> [input |-> 250, output |-> 1000]
          [] m = "gpt-4-turbo" -> [input |-> 1000, output |-> 3000]]

\* pricing.get(model, pricing["gpt-4o-mini"])
model_pricing(model) ==
    IF model \in DOMAIN pricing THEN pricing[model] ELSE pricing["gpt-4o-mini"]

estimate_cost(prompt_tokens, completion_tokens, model) ==
    prompt_tokens * model_pricing(model).input
        + completion_tokens * model_pricing(model).output

\* json.loads(content).  A reply's content is its text when it is no JSON, and its
\* value when it is: an object (obj: field -> value) or some other JSON value.
JsonLoads(content) ==
    IF content.kind = "text"
    THEN [error |-> TRUE, is_dict |-> FALSE, value |-> <<>>]
    ELSE [error |-> FALSE, is_dict |-> content.kind = "object", value |-> content.obj]

\* Faulty variant of the except branch: the reply's text is dropped, an empty dict returned.
parsed_responseDropsText(content) ==
    IF JsonLoads(content).error
    THEN [error |-> FALSE, is_dict |-> TRUE, value |-> <<>>]
    ELSE JsonLoads(content)

\* try: json.loads(content) except JSONDecodeError: {"raw_response": content}
parsed_response(content) ==
    IF JsonLoads(content).error
    THEN [error |-> FALSE, is_dict |-> TRUE,
          value |-> (<<"raw_response">> :> Str_(content.text))]
    ELSE JsonLoads(content)

\* process_item: `api` is what client.chat.completions.create does, raise or return.
\* There is no try around the remote call.
process_item(prompt, output_fields, model, api) ==
    IF api.raises
    THEN [raised |-> TRUE, response |-> <<>>, is_dict |-> FALSE,
          prompt_tokens |-> 0, completion_tokens |-> 0]
    ELSE [raised |-> FALSE,
          response |-> parsed_response(api.content).value,
          is_dict |-> parsed_response(api.content).is_dict,
          prompt_tokens |-> api.prompt_tokens,
          completion_tokens |-> api.completion_tokens]

----------------------------------------------------------------------------
(* app.py: process_dataframe *)

RECURSIVE SplitFrom(_, _, _)
\* s.split(","): cur is the piece being read.
SplitFrom(s, i, cur) ==
    IF i > Len(s) THEN <<cur>>
    ELSE IF s[i] = "," THEN <<cur>> \o SplitFrom(s, i + 1, <<>>)
         ELSE SplitFrom(s, i + 1, Append(cur, s[i]))

Split(s) == SplitFrom(s, 1, <<>>)

RECURSIVE LStrip(_)
LStrip(s) == IF s # <<>> /\ Head(s) = " " THEN LStrip(Tail(s)) ELSE s

RECURSIVE RStrip(_)
RStrip(s) ==
    IF s # <<>> /\ s[Len(s)] = " " THEN RStrip(SubSeq(s, 1, Len(s) - 1)) ELSE s

Strip(s) == RStrip(LStrip(s))

\* [f.strip() for f in step["output_fields"].split(",")]
OutputFields(step) ==
    LET parts == Split(step.output_fields)
    IN  [i \in 1..Len(parts) |-> Strip(parts[i])]

\* Faulty variant of the skip test: only an empty prompt skips the step.
SkippedPromptOnly(step) == step.prompt = <<>>

\* if not step["prompt"] or not step["output_fields"]: continue
Skipped(step) == step.prompt = <<>> \/ step.output_fields = <<>>

\* col_name = f"AI_{field}"
ColName(field) == <<"AI_">> \o field

\* str(value) if not isinstance(value, str) else value
Stored(value) == IF value.t = "str" THEN value ELSE Str_(PyStr(value))

\* result_df.at[row_idx, col_name] = ..., for every field of the response.  Setting a
\* cell of a column the frame does not have adds the column, NaN in the other rows.
\* r is the row's position (row_idx + 1).
SetCells(frame, r, response) ==
    LET new == {ColName(f) : f \in DOMAIN response}
    IN  [i \in 1..Len(frame) |->
            [c \in (DOMAIN frame[i]) \cup new |->
                IF i = r /\ c \in new THEN Stored(response[Tail(c)])
                ELSE IF c \in DOMAIN frame[i] THEN frame[i][c]
                ELSE NaN]]

\* Faulty variant of the row_data update: the dict is left as loaded.
UpdateRowDataStale(data, response) == data

\* row_data[col_name] = value, for every field of the response.
UpdateRowData(data, response) ==
    LET new == {ColName(f) : f \in DOMAIN response}
    IN  [c \in (DOMAIN data) \cup new |->
            IF c \in new THEN response[Tail(c)] ELSE data[c]]

\* rows_to_process = 1 if preview_only else len(result_df)
rows_to_process == IF preview_only THEN 1 ELSE Len(result_df)

\* Faulty variant of the pricing model: the last configured step's.
CostModelLast == IF steps # <<>> THEN steps[Len(steps)].model ELSE "gpt-4o-mini"

\* steps[0]["model"] if steps else "gpt-4o-mini"
CostModel == IF steps # <<>> THEN steps[1].model ELSE "gpt-4o-mini"

\* init_session_state
InitialSession ==
    [total_tokens |-> [prompt |-> 0, completion |-> 0],
     estimated_cost |-> 0,
     processed_df |-> [none |-> TRUE, frame |-> <<>>]]

----------------------------------------------------------------------------
(* The inputs of a run *)

ColT == <<"t">>
ColAIs == <<"AI_", "s">>
CellsT == {Str_(<<"x">>), Int_(3)}
RowSet == {(ColT :> v) : v \in CellsT}
             \cup {(ColT :> Str_(<<"x">>)) @@ (ColAIs :> Str_(<<"o">>))}

\* A table's rows all have the table's columns.
Tables ==
    UNION {{tb \in [1..n -> RowSet] :
               \A i \in 1..n : DOMAIN tb[i] = DOMAIN tb[1]} : n \in 0..MaxRows}

StepSet ==
    {[prompt |-> Placeholder(ColT), output_fields |-> <<"s">>, model |-> "gpt-4o-mini"],
     [prompt |-> Placeholder(ColAIs), output_fields |-> <<"s", ",", " ", "u">>,
      model |-> "gpt-4o"],
     [prompt |-> <<>>, output_fields |-> <<"s">>, model |-> "gpt-4-turbo"],
     [prompt |-> <<"x">>, output_fields |-> <<>>, model |-> "other-model"]}

\* The buttons call process_dataframe only when at least one step is configured.
StepLists == UNION {[1..n -> StepSet] : n \in 1..MaxSteps}

Range(f) == {f[x] : x \in DOMAIN f}

\* What the remote call may do with a prompt asking for `fields`: raise; or reply
\* with a JSON object holding the fields (a string made from the prompt, except for
\* field u, a number), with text that is no JSON (made from the prompt too), or with
\* JSON that is no object.
\* The usage is the service's.
ObjectReply(prompt, fields) ==
    [f \in Range(fields) |-> IF f = <<"u">> THEN Int_(7) ELSE Str_(<<"y">> \o prompt)]

ApiOutcomes(prompt, fields) ==
    {[raises |-> TRUE, content |-> [kind |-> "none", obj |-> <<>>, text |-> <<>>],
      prompt_tokens |-> 0, completion_tokens |-> 0],
     [raises |-> FALSE,
      content |-> [kind |-> "object", obj |-> ObjectReply(prompt, fields),
                   text |-> <<>>],
      prompt_tokens |-> 2, completion_tokens |-> 1],
     [raises |-> FALSE,
      content |-> [kind |-> "text", obj |-> <<>>, text |-> <<"x", " ">> \o prompt],
      prompt_tokens |-> 1, completion_tokens |-> 1],
     [raises |-> FALSE,
      content |-> [kind |-> "scalar", obj |-> <<>>, text |-> <<>>],
      prompt_tokens |-> 1, completion_tokens |-> 0]}

SubIdle ==
    /\ sub_pc = "idle" /\ sub_prompt = <<>> /\ sub_row = <<>>
    /\ sub_out = <<>> /\ sub_names = <<>>

Init ==
    /\ SubIdle
    /\ df \in Tables
    /\ steps \in StepLists
    /\ preview_only \in BOOLEAN
    /\ api_key \in BOOLEAN
    /\ pc = "start"
    /\ result_df = <<>>
    /\ row_idx = 0
    /\ step_idx = 0
    /\ row_data = <<>>
    /\ total_prompt_tokens = 0
    /\ total_completion_tokens = 0
    /\ session = InitialSession
    /\ exc = "none"
    /\ calls = <<>>

\* The caller's st.session_state.processed_df = process_dataframe(...)
Return(table) == [session EXCEPT !.processed_df = [none |-> FALSE, frame |-> table]]

\* service = OpenAIProcessingService() fails: st.error, return df.
NoKey ==
    /\ pc = "start" /\ ~api_key
    /\ pc' = "done"
    /\ session' = Return(df)
    /\ UNCHANGED <<df, steps, preview_only, api_key, result_df, row_idx, step_idx,
                   row_data, total_prompt_tokens, total_completion_tokens, exc, calls,
                   sub_vars>>

\* result_df = df.copy(); the totals start at 0.
Begin ==
    /\ pc = "start" /\ api_key
    /\ result_df' = df
    /\ total_prompt_tokens' = 0
    /\ total_completion_tokens' = 0
    /\ row_idx' = 0
    /\ pc' = "row"
    /\ UNCHANGED <<df, steps, preview_only, api_key, step_idx, row_data, session, exc,
                   calls, sub_vars>>

\* row_data = result_df.iloc[row_idx].to_dict()
LoadRow ==
    /\ pc = "row" /\ row_idx < rows_to_process
    /\ row_idx < Len(result_df)
    /\ row_data' = result_df[row_idx + 1]
    /\ step_idx' = 0
    /\ pc' = "step"
    /\ UNCHANGED <<df, steps, preview_only, api_key, result_df, row_idx,
                   total_prompt_tokens, total_completion_tokens, session, exc, calls,
                   sub_vars>>

\* result_df.iloc[row_idx] past the end of the frame: IndexError, which nothing catches.
LoadRowFails ==
    /\ pc = "row" /\ row_idx < rows_to_process
    /\ row_idx >= Len(result_df)
    /\ pc' = "raised"
    /\ exc' = "IndexError"
    /\ UNCHANGED <<df, steps, preview_only, api_key, result_df, row_idx, step_idx,
                   row_data, total_prompt_tokens, total_completion_tokens, session,
                   calls, sub_vars>>

\* A step with no prompt or no output fields: continue.
SkipStep ==
    /\ pc = "step" /\ step_idx < Len(steps)
    /\ Skipped(steps[step_idx + 1])
    /\ step_idx' = step_idx + 1
    /\ UNCHANGED <<df, steps, preview_only, api_key, pc, result_df, row_idx, row_data,
                   total_prompt_tokens, total_completion_tokens, session, exc, calls,
                   sub_vars>>

\* One pass of the body of the step loop: render, call, merge, count.  Nothing
\* catches what process_item or the merge raises.
RunStep ==
    /\ pc = "step" /\ step_idx < Len(steps)
    /\ ~Skipped(steps[step_idx + 1])
    /\ LET step == steps[step_idx + 1]
           formatted_prompt == replace_placeholders(step.prompt, row_data)
           output_fields == OutputFields(step)
       IN  \E api \in ApiOutcomes(formatted_prompt, output_fields) :
             LET result == process_item(formatted_prompt, output_fields, step.model, api)
             IN  /\ calls' = Append(calls,
                        [row |-> row_idx, step |-> step_idx, data |-> row_data,
                         prompt |-> formatted_prompt, fields |-> output_fields,
                         model |-> step.model, api |-> api, result |-> result])
                 /\ IF result.raised \/ ~result.is_dict
                    THEN \* the remote call raised, or result.response.items() did
                         /\ pc' = "raised"
                         /\ exc' = IF result.raised THEN "APIError" ELSE "AttributeError"
                         /\ UNCHANGED <<result_df, row_data, total_prompt_tokens,
                                        total_completion_tokens, step_idx>>
                    ELSE /\ result_df' = SetCells(result_df, row_idx + 1, result.response)
                         /\ row_data' = UpdateRowData(row_data, result.response)
                         /\ total_prompt_tokens' =
                                total_prompt_tokens + result.prompt_tokens
                         /\ total_completion_tokens' =
                                total_completion_tokens + result.completion_tokens
                         /\ step_idx' = step_idx + 1
                         /\ UNCHANGED <<pc, exc>>
    /\ UNCHANGED <<df, steps, preview_only, api_key, row_idx, session, sub_vars>>

\* The step loop is over: progress_bar.progress(...), on to the next row.
EndRow ==
    /\ pc = "step" /\ step_idx >= Len(steps)
    /\ row_idx' = row_idx + 1
    /\ pc' = "row"
    /\ UNCHANGED <<df, steps, preview_only, api_key, result_df, step_idx, row_data,
                   total_prompt_tokens, total_completion_tokens, session, exc, calls,
                   sub_vars>>

\* The row loop is over: the session's totals and estimate, return result_df.
Finish ==
    /\ pc = "row" /\ row_idx >= rows_to_process
    /\ session' =
          [total_tokens |-> [prompt |-> total_prompt_tokens,
                             completion |-> total_completion_tokens],
           estimated_cost |-> estimate_cost(total_prompt_tokens,
                                            total_completion_tokens, CostModel),
           processed_df |-> [none |-> FALSE, frame |-> result_df]]
    /\ pc' = "done"
    /\ UNCHANGED <<df, steps, preview_only, api_key, result_df, row_idx, step_idx,
                   row_data, total_prompt_tokens, total_completion_tokens, exc, calls,
                   sub_vars>>

Next ==
    \/ NoKey
    \/ Begin
    \/ LoadRow
    \/ LoadRowFails
    \/ SkipStep
    \/ RunStep
    \/ EndRow
    \/ Finish

Spec == Init /\ [][Next]_vars

----------------------------------------------------------------------------
(* Properties of the pipeline, checked under Spec *)

Terminal == pc \in {"done", "raised"}

RECURSIVE SumPrompt(_)
\* The prompt tokens reported by the calls of a log.
SumPrompt(log) ==
    IF log = <<>> THEN 0 ELSE Head(log).result.prompt_tokens + SumPrompt(Tail(log))

RECURSIVE SumCompletion(_)
\* The completion tokens reported by the calls of a log.
SumCompletion(log) ==
    IF log = <<>> THEN 0
    ELSE Head(log).result.completion_tokens + SumCompletion(Tail(log))

\* The calls whose result the pipeline merged (the others ended the run).
Merged(log) == SelectSeq(log, LAMBDA c : ~c.result.raised /\ c.result.is_dict)

ZeroSummary ==
    /\ session.total_tokens = [prompt |-> 0, completion |-> 0]
    /\ session.estimated_cost = 0

\* The columns of row i that the run added hold no value.
NoAIValue(i) ==
    \A c \in DOMAIN result_df[i] : c \notin DOMAIN df[i] => result_df[i][c] = NaN

OriginalKept(i) ==
    \A c \in DOMAIN df[i] : c \in DOMAIN result_df[i] /\ result_df[i][c] = df[i][c]

\* C1: a preview run processes exactly min(1, row_count) rows: every model call is
\* for the first row, no later row is given a value or changed, and on an empty
\* table the run ends without error, returning the empty table unmodified with a
\* zero summary.
C1_PreviewTouchesMinOneRow ==
    (preview_only /\ api_key) =>
        /\ \A j \in 1..Len(calls) : calls[j].row = 0
        /\ \A i \in 2..Len(result_df) : OriginalKept(i) /\ NoAIValue(i)
        /\ (Terminal /\ df = <<>>) =>
              /\ pc = "done"
              /\ session.processed_df = [none |-> FALSE, frame |-> df]
              /\ ZeroSummary

\* C2: when the remote call fails, the run is aborted and the caller still gets
\* the table as enriched so far and the token totals accumulated so far.
C2_FailureKeepsPartialProgress ==
    (pc = "raised" /\ exc = "APIError") =>
        /\ session.processed_df = [none |-> FALSE, frame |-> result_df]
        /\ session.total_tokens = [prompt |-> total_prompt_tokens,
                                   completion |-> total_completion_tokens]

\* C3: within a row the steps run in configured order, and the row data a step's
\* prompt is rendered against holds, for every field F an earlier step of the row
\* returned, key AI_F with the parsed value of the latest such step.
C3_ChainedStepsSeeEarlierFields ==
    \A i, j \in 1..Len(calls) :
        (i < j /\ calls[i].row = calls[j].row) =>
            /\ calls[i].step < calls[j].step
            /\ \A F \in DOMAIN calls[i].result.response :
                  (\A k \in (i + 1)..(j - 1) : F \notin DOMAIN calls[k].result.response)
                      => /\ ColName(F) \in DOMAIN calls[j].data
                         /\ calls[j].data[ColName(F)] = calls[i].result.response[F]

\* Witness of C3: the second step of a row is rendered from the string the first
\* returned as s, and sees the number it returned as u.
C3_Witness ==
    /\ Len(calls) >= 2
    /\ calls[1].row = calls[2].row
    /\ <<"s">> \in DOMAIN calls[1].result.response
    /\ calls[2].prompt = calls[1].result.response[<<"s">>].s
    /\ ColName(<<"u">>) \in DOMAIN calls[2].data
    /\ calls[2].data[ColName(<<"u">>)] = Int_(7)

\* data with key AI_F set to the response's value, for every field F of it.
Override(data, response) ==
    LET new == {ColName(f) : f \in DOMAIN response}
    IN  [c \in (DOMAIN data) \cup new |->
            IF c \in new THEN response[Tail(c)] ELSE data[c]]

RECURSIVE OwnData(_, _, _)
\* Row r's original values `data`, then the replies to the row's own calls in log.
OwnData(data, log, r) ==
    IF log = <<>> THEN data
    ELSE OwnData(IF Head(log).row = r /\ ~Head(log).result.raised
                        /\ Head(log).result.is_dict
                    THEN Override(data, Head(log).result.response)
                    ELSE data,
                 Tail(log), r)

\* C4: the prompt rendered for a row at a step depends only on the row's original
\* values and the replies to the row's own earlier steps; a placeholder for a
\* column the row does not have renders as the empty string.
C4_RowsIndependent ==
    \A j \in 1..Len(calls) :
        calls[j].prompt =
            replace_placeholders(steps[calls[j].step + 1].prompt,
                                 OwnData(df[calls[j].row + 1],
                                         SubSeq(calls, 1, j - 1), calls[j].row))

\* C5: a step whose prompt or output fields are empty is passed over: no call, no
\* tokens, the table row and the row data unchanged, and the run goes on.
C5_SkippedStepIsNoOp ==
    [][(pc = "step" /\ step_idx < Len(steps)
          /\ (steps[step_idx + 1].prompt = <<>>
                \/ steps[step_idx + 1].output_fields = <<>>))
        => /\ calls' = calls
           /\ result_df' = result_df
           /\ row_data' = row_data
           /\ total_prompt_tokens' = total_prompt_tokens
           /\ total_completion_tokens' = total_completion_tokens
           /\ pc' = "step" /\ exc' = "none"
           /\ step_idx' = step_idx + 1]_vars

\* Witness of C5: in the second row, a step with no prompt and a step with no
\* output fields have both been passed over.
C5_Witness ==
    /\ pc = "step" /\ row_idx = 1 /\ step_idx = 2
    /\ steps[1].prompt = <<>>
    /\ steps[2].output_fields = <<>>

\* C8: a completed run records estimate_cost(P, C, m), P and C the sums of the
\* tokens reported by every call of the run, m the first configured step's
\* model; a model the table does not list is priced as gpt-4o-mini.
C8_CostFromTotalsAndFirstModel ==
    pc = "done" =>
        LET P == SumPrompt(calls)
            C == SumCompletion(calls)
            m == IF steps = <<>> THEN "gpt-4o-mini" ELSE steps[1].model
        IN  /\ session.total_tokens = [prompt |-> P, completion |-> C]
            /\ session.estimated_cost = estimate_cost(P, C, m)
            /\ m \notin {"gpt-4o-mini", "gpt-4o", "gpt-4-turbo"}
                  => session.estimated_cost = P * 15 + C * 60
            /\ m = "gpt-4-turbo" => session.estimated_cost = P * 1000 + C * 3000

\* Witness of C8: a completed run that counted tokens, its first step naming a
\* model the pricing table does not list and a later step another model.
C8_Witness ==
    /\ pc = "done"
    /\ Len(steps) >= 2
    /\ steps[1].model = "other-model"
    /\ steps[2].model = "gpt-4o"
    /\ session.total_tokens.prompt > 0

\* C9: a reply that is no JSON does not end the run: process_item returns
\* {"raw_response": text} with the service's token counts, the pipeline stores the
\* text in the row's AI_raw_response, counts the tokens and goes on.
C9_NonJsonReplyAbsorbed ==
    /\ \A j \in 1..Len(calls) :
          calls[j].api.content.kind = "text" =>
              /\ ~calls[j].result.raised
              /\ calls[j].result.response =
                     (<<"raw_response">> :> Str_(calls[j].api.content.text))
              /\ calls[j].result.prompt_tokens = calls[j].api.prompt_tokens
              /\ calls[j].result.completion_tokens = calls[j].api.completion_tokens
    /\ (calls # <<>> /\ calls[Len(calls)].api.content.kind = "text") =>
          LET c == calls[Len(calls)]
          IN  /\ exc = "none"
              /\ result_df[c.row + 1][ColName(<<"raw_response">>)]
                     = Str_(c.api.content.text)
    /\ total_prompt_tokens = SumPrompt(Merged(calls))
    /\ total_completion_tokens = SumCompletion(Merged(calls))

\* Witness of C9: a completed run in which a reply that was no JSON was followed by
\* a call for the next row.
C9_Witness ==
    /\ pc = "done"
    /\ \E j \in 1..(Len(calls) - 1) :
          /\ calls[j].api.content.kind = "text"
          /\ calls[j + 1].row = calls[j].row + 1

\* C10: every column of the uploaded table holds its original value in every row
\* of the result, whatever the table's column names and the output field names.
C10_OriginalColumnsKept ==
    \A i \in 1..Len(result_df) : OriginalKept(i)

----------------------------------------------------------------------------
(* replace_placeholders applied on its own to bounded templates and rows *)

PieceA == Placeholder(<<"A">>)
PieceB == Placeholder(<<"B">>)
PieceZ == Placeholder(<<"Z">>)
Pieces == {PieceA, PieceB, PieceZ, <<"{">>, <<"@", "B", "}">>, <<"x">>}

RECURSIVE Concat(_)
Concat(ss) == IF ss = <<>> THEN <<>> ELSE Head(ss) \o Concat(Tail(ss))

PieceLists == UNION {[1..n -> Pieces] : n \in 0..MaxPieces}
Templates == {Concat(ps) : ps \in PieceLists}

\* Column A always present, column B present or not, column Z never.
ValuesA == {Str_(<<>>), Str_(<<"x">>), Int_(7), Str_(PieceB), Str_(<<"x">> \o PieceA),
            Str_(<<"@", "B", "}">>)}
SubRows == {(<<"A">> :> a) : a \in ValuesA}
              \cup {(<<"A">> :> a) @@ (<<"B">> :> Str_(<<"y">>)) : a \in ValuesA}

PipeIdle ==
    /\ df = <<>> /\ steps = <<>> /\ preview_only = FALSE /\ api_key = FALSE
    /\ pc = "idle" /\ result_df = <<>> /\ row_idx = 0 /\ step_idx = 0
    /\ row_data = <<>> /\ total_prompt_tokens = 0 /\ total_completion_tokens = 0
    /\ session = <<>> /\ exc = "none" /\ calls = <<>>

SubInit ==
    /\ PipeIdle
    /\ sub_pc = "call"
    /\ sub_prompt \in Templates
    /\ sub_row \in SubRows
    /\ sub_out = <<>>
    /\ sub_names = <<>>

\* The UI's call of extract_placeholders on the prompt, then the pipeline's call of
\* replace_placeholders on it.
SubCall ==
    /\ sub_pc = "call"
    /\ sub_names' = extract_placeholders(sub_prompt)
    /\ sub_out' = replace_placeholders(sub_prompt, sub_row)
    /\ sub_pc' = "done"
    /\ UNCHANGED <<sub_prompt, sub_row, pipe_vars>>

SubNext == SubCall

SpecSub == SubInit /\ [][SubNext]_vars

----------------------------------------------------------------------------
(* Properties of replace_placeholders, checked under SpecSub *)

RECURSIVE SinglePassFrom(_, _, _)
\* One pass over the template from position i: each match of the pattern gives way
\* to the string form of the row's value (nothing when the row has none), all other
\* text is copied, and inserted text is not looked at again.
SinglePassFrom(t, i, row) ==
    IF i > Len(t) THEN <<>>
    ELSE LET m == MatchLen(t, i)
         IN  IF m > 0
             THEN (IF SubSeq(t, i + 2, i + m - 2) \in DOMAIN row
                   THEN PyStr(row[SubSeq(t, i + 2, i + m - 2)])
                   ELSE <<>>) \o SinglePassFrom(t, i + m, row)
             ELSE <<t[i]>> \o SinglePassFrom(t, i + 1, row)

\* text occurs in s.
Occurs(text, s) ==
    \E i \in 1..(Len(s) - Len(text) + 1) : SubSeq(s, i, i + Len(text) - 1) = text

\* C6: substitution is a single-pass literal replacement: every placeholder of the
\* original template is replaced by the row's value, and inserted text is never
\* expanded itself.
C6_SinglePassLiteral ==
    sub_pc = "done" => sub_out = SinglePassFrom(sub_prompt, 1, sub_row)

\* C7 as stated: the result holds no {@X} for any column X of the row, and a
\* placeholder whose identifier the row lacks is replaced by the empty string.
C7_NoPlaceholderOfPresentColumn ==
    sub_pc = "done" =>
        /\ \A X \in DOMAIN sub_row : ~Occurs(Placeholder(X), sub_out)
        /\ sub_out = replace_placeholders(sub_prompt,
                        [X \in (DOMAIN sub_row) \cup Range(sub_names) |->
                            IF X \in DOMAIN sub_row THEN sub_row[X] ELSE Str_(<<>>)])

\* No value of the row has a "{" in its string form.
NoBraceInValues(row) == \A X \in DOMAIN row : "{" \notin Range(PyStr(row[X]))

\* Every "{" of the template begins a placeholder.
EveryBraceBeginsPlaceholder(t) == \A i \in 1..Len(t) : t[i] = "{" => MatchLen(t, i) > 0

\* C7, amended: when no value of the row has a "{" in its string form and every "{"
\* of the template begins a placeholder, the result holds no {@X} for any column X
\* of the row; and always, a placeholder whose identifier the row lacks is replaced
\* exactly as if the row held the empty string for it.
C7_NoPlaceholderWhenNoBraces ==
    sub_pc = "done" =>
        /\ (NoBraceInValues(sub_row) /\ EveryBraceBeginsPlaceholder(sub_prompt))
              => \A X \in DOMAIN sub_row : ~Occurs(Placeholder(X), sub_out)
        /\ sub_out = replace_placeholders(sub_prompt,
                        [X \in (DOMAIN sub_row) \cup Range(sub_names) |->
                            IF X \in DOMAIN sub_row THEN sub_row[X] ELSE Str_(<<>>)])

\* Witness of C7: a template naming column A twice and the missing column Z, all
\* its braces beginning placeholders, substituted against a row without braces.
C7_Witness ==
    /\ sub_pc = "done"
    /\ sub_prompt = PieceA \o PieceZ \o PieceA
    /\ sub_row = (<<"A">> :> Int_(7)) @@ (<<"B">> :> Str_(<<"y">>))
    /\ sub_out = <<"7", "7">>

====
